---- MODULE Spec2Model ----
(***************************************************************************)
(* Knowledge-graph memory engine of genkitx-memory: the Graph class        *)
(* (createEntities, createRelationships, addObservations, delete*, read)   *)
(* over a GraphStore keyed by an optional session id.                      *)
(***************************************************************************)
EXTENDS Integers, Sequences, FiniteSets, TLC

VARIABLES graphs, last, written, inflight, file, sessionFiles

vars == <<graphs, last, written, inflight, file, sessionFiles>>

(***************************************************************************)
(* Bounds of the exploration.                                              *)
(***************************************************************************)
MaxBatch == 2
MaxRelationships == 2

(***************************************************************************)
(* Data model (types.ts).                                                  *)
(***************************************************************************)
Entity(n, t, obs) == [name |-> n, entityType |-> t, observations |-> obs]

Relationship(f, t, rt) == [from |-> f, to |-> t, relationshipType |-> rt]

KnowledgeGraph(es, rs) == [entities |-> es, relationships |-> rs]

Observation(n, cs) == [entityName |-> n, contents |-> cs]

DeletedObservation(n, obs) == [entityName |-> n, observations |-> obs]

AddedObservationResult(n, added) == [entityName |-> n, addedObservations |-> added]

EmptyGraph == KnowledgeGraph(<<>>, <<>>)

(***************************************************************************)
(* Array helpers of the host language.                                     *)
(***************************************************************************)
SeqsUpTo(S, n) == UNION {[1..k -> S] : k \in 0..n}

Range(s) == {s[i] : i \in 1..Len(s)}

\* Array.prototype.includes
Includes(s, x) == \E i \in 1..Len(s) : s[i] = x

\* index of the element Array.prototype.find returns, 0 when there is none
FindEntityIndex(entities, n) ==
  IF \E i \in 1..Len(entities) : entities[i].name = n
  THEN CHOOSE i \in 1..Len(entities) :
         /\ entities[i].name = n
         /\ \A j \in 1..(i - 1) : entities[j].name # n
  ELSE 0

(***************************************************************************)
(* The store: one persisted graph per session key.                         *)
(***************************************************************************)
Undefined == "undefined"

GLOBAL_SESSION_KEY == "__GLOBAL__"

SessionIds == {Undefined, "session1"}

getSessionKey(sessionId) ==
  IF sessionId = Undefined THEN GLOBAL_SESSION_KEY ELSE sessionId

loadGraph(sessionId) ==
  IF getSessionKey(sessionId) \in DOMAIN graphs
  THEN graphs[getSessionKey(sessionId)]
  ELSE EmptyGraph

\* saveGraph that drops the session and always writes the global graph
saveGraphGlobalOnly(sessionId, graph) ==
  [k \in DOMAIN graphs \cup {GLOBAL_SESSION_KEY} |->
     IF k = GLOBAL_SESSION_KEY THEN graph ELSE graphs[k]]

\* the map after saveGraph(sessionId, graph)
saveGraph(sessionId, graph) ==
  [k \in DOMAIN graphs \cup {getSessionKey(sessionId)} |->
     IF k = getSessionKey(sessionId) THEN graph ELSE graphs[k]]

(***************************************************************************)
(* The modifiers handed to _withGraphPersistence.  Each returns the graph  *)
(* as mutated in memory, the value returned and whether it threw.          *)
(***************************************************************************)
Outcome(g, r) == [graph |-> g, result |-> r, threw |-> FALSE, error |-> <<>>]

Thrown(g, e) == [graph |-> g, result |-> <<>>, threw |-> TRUE, error |-> e]

\* createEntities that takes an entity for stored only when all its fields match
createEntitiesModifierWholeEntity(graph, entities) ==
  LET newEntities ==
        SelectSeq(entities,
                  LAMBDA e : ~ \E i \in 1..Len(graph.entities) : graph.entities[i] = e)
  IN Outcome(KnowledgeGraph(graph.entities \o newEntities, graph.relationships),
             newEntities)

\* createEntities that also drops a name already seen earlier in the batch
createEntitiesModifierBatchDedup(graph, entities) ==
  LET idxs == {i \in 1..Len(entities) :
                 /\ \A j \in 1..Len(graph.entities) :
                      graph.entities[j].name # entities[i].name
                 /\ \A j \in 1..(i - 1) : entities[j].name # entities[i].name}
      newEntities ==
        [k \in 1..Cardinality(idxs) |->
           entities[CHOOSE i \in idxs : Cardinality({j \in idxs : j <= i}) = k]]
  IN Outcome(KnowledgeGraph(graph.entities \o newEntities, graph.relationships),
             newEntities)

\* createEntities that appends the whole batch and returns the new ones
createEntitiesModifierAppendAll(graph, entities) ==
  LET newEntities ==
        SelectSeq(entities,
                  LAMBDA e : ~ \E i \in 1..Len(graph.entities) :
                                 graph.entities[i].name = e.name)
  IN Outcome(KnowledgeGraph(graph.entities \o entities, graph.relationships),
             newEntities)

createEntitiesModifier(graph, entities) ==
  LET newEntities ==
        SelectSeq(entities,
                  LAMBDA e : ~ \E i \in 1..Len(graph.entities) :
                                 graph.entities[i].name = e.name)
  IN Outcome(KnowledgeGraph(graph.entities \o newEntities, graph.relationships),
             newEntities)

\* createRelationships that compares the endpoints only
createRelationshipsModifierEndpoints(graph, relationships) ==
  LET newRelationships ==
        SelectSeq(relationships,
                  LAMBDA r : ~ \E i \in 1..Len(graph.relationships) :
                                 /\ graph.relationships[i].from = r.from
                                 /\ graph.relationships[i].to = r.to)
  IN Outcome(KnowledgeGraph(graph.entities, graph.relationships \o newRelationships),
             newRelationships)

createRelationshipsModifier(graph, relationships) ==
  LET newRelationships ==
        SelectSeq(relationships,
                  LAMBDA r : ~ \E i \in 1..Len(graph.relationships) :
                                 /\ graph.relationships[i].from = r.from
                                 /\ graph.relationships[i].to = r.to
                                 /\ graph.relationships[i].relationshipType
                                      = r.relationshipType)
  IN Outcome(KnowledgeGraph(graph.entities, graph.relationships \o newRelationships),
             newRelationships)

EntityNotFound(n) == <<"Entity with name ", n, " not found">>

\* the callback pushing every string of contents, new or not
addObservationEntryPushAll(graph, o) ==
  LET idx == FindEntityIndex(graph.entities, o.entityName)
  IN IF idx = 0
     THEN Thrown(graph, EntityNotFound(o.entityName))
     ELSE LET entity == graph.entities[idx]
              newObservations ==
                SelectSeq(o.contents,
                          LAMBDA content : ~ Includes(entity.observations, content))
              updated == [entity EXCEPT !.observations = @ \o o.contents]
          IN Outcome(KnowledgeGraph([graph.entities EXCEPT ![idx] = updated],
                                    graph.relationships),
                     AddedObservationResult(o.entityName, newObservations))

\* the callback putting the new observations in front of the stored ones
addObservationEntryUnshift(graph, o) ==
  LET idx == FindEntityIndex(graph.entities, o.entityName)
  IN IF idx = 0
     THEN Thrown(graph, EntityNotFound(o.entityName))
     ELSE LET entity == graph.entities[idx]
              newObservations ==
                SelectSeq(o.contents,
                          LAMBDA content : ~ Includes(entity.observations, content))
              updated == [entity EXCEPT !.observations = newObservations \o @]
          IN Outcome(KnowledgeGraph([graph.entities EXCEPT ![idx] = updated],
                                    graph.relationships),
                     AddedObservationResult(o.entityName, newObservations))

\* one callback of observations.map: the entity found and mutated in place
addObservationEntry(graph, o) ==
  LET idx == FindEntityIndex(graph.entities, o.entityName)
  IN IF idx = 0
     THEN Thrown(graph, EntityNotFound(o.entityName))
     ELSE LET entity == graph.entities[idx]
              newObservations ==
                SelectSeq(o.contents,
                          LAMBDA content : ~ Includes(entity.observations, content))
              updated == [entity EXCEPT !.observations = @ \o newObservations]
          IN Outcome(KnowledgeGraph([graph.entities EXCEPT ![idx] = updated],
                                    graph.relationships),
                     AddedObservationResult(o.entityName, newObservations))

\* observations.map that passes over an entry whose entity is missing
RECURSIVE addObservationsFromSkipMissing(_, _, _, _)
addObservationsFromSkipMissing(graph, observations, i, results) ==
  IF i > Len(observations)
  THEN Outcome(graph, results)
  ELSE LET step == addObservationEntry(graph, observations[i])
       IN IF step.threw
          THEN addObservationsFromSkipMissing(graph, observations, i + 1, results)
          ELSE addObservationsFromSkipMissing(step.graph, observations, i + 1,
                                              Append(results, step.result))

RECURSIVE addObservationsFrom(_, _, _, _)
addObservationsFrom(graph, observations, i, results) ==
  IF i > Len(observations)
  THEN Outcome(graph, results)
  ELSE LET step == addObservationEntry(graph, observations[i])
       IN IF step.threw
          THEN step
          ELSE addObservationsFrom(step.graph, observations, i + 1,
                                   Append(results, step.result))

addObservationsModifier(graph, observations) ==
  addObservationsFrom(graph, observations, 1, <<>>)

\* deleteEntities whose cascade looks at the source of a relationship only
deleteEntitiesModifierFromOnly(graph, entityNames) ==
  Outcome(KnowledgeGraph(
            SelectSeq(graph.entities, LAMBDA e : ~ Includes(entityNames, e.name)),
            SelectSeq(graph.relationships,
                      LAMBDA r : ~ Includes(entityNames, r.from))),
          <<>>)

deleteEntitiesModifier(graph, entityNames) ==
  Outcome(KnowledgeGraph(
            SelectSeq(graph.entities, LAMBDA e : ~ Includes(entityNames, e.name)),
            SelectSeq(graph.relationships,
                      LAMBDA r : /\ ~ Includes(entityNames, r.from)
                                 /\ ~ Includes(entityNames, r.to))),
          <<>>)

\* the callback removing only the first occurrence of a listed observation
deleteObservationEntryFirstOnly(graph, d) ==
  LET idx == FindEntityIndex(graph.entities, d.entityName)
  IN IF idx = 0
     THEN graph
     ELSE LET obs == graph.entities[idx].observations
              kept == {j \in 1..Len(obs) :
                         \/ ~ Includes(d.observations, obs[j])
                         \/ \E h \in 1..(j - 1) : obs[h] = obs[j]}
          IN KnowledgeGraph(
               [graph.entities EXCEPT ![idx].observations =
                  [k \in 1..Cardinality(kept) |->
                     obs[CHOOSE j \in kept : Cardinality({h \in kept : h <= j}) = k]]],
               graph.relationships)

deleteObservationEntry(graph, d) ==
  LET idx == FindEntityIndex(graph.entities, d.entityName)
  IN IF idx = 0
     THEN graph
     ELSE KnowledgeGraph(
            [graph.entities EXCEPT ![idx].observations =
               SelectSeq(@, LAMBDA o : ~ Includes(d.observations, o))],
            graph.relationships)

RECURSIVE deleteObservationsFrom(_, _, _)
deleteObservationsFrom(graph, deletions, i) ==
  IF i > Len(deletions)
  THEN graph
  ELSE deleteObservationsFrom(deleteObservationEntry(graph, deletions[i]),
                              deletions, i + 1)

\* deleteObservations that rejects an entry naming a missing entity
deleteObservationsModifierStrict(graph, deletions) ==
  IF \E k \in 1..Len(deletions) :
       FindEntityIndex(graph.entities, deletions[k].entityName) = 0
  THEN Thrown(graph, EntityNotFound(
         deletions[CHOOSE k \in 1..Len(deletions) :
                     FindEntityIndex(graph.entities, deletions[k].entityName) = 0
                  ].entityName))
  ELSE Outcome(deleteObservationsFrom(graph, deletions, 1), <<>>)

deleteObservationsModifier(graph, deletions) ==
  Outcome(deleteObservationsFrom(graph, deletions, 1), <<>>)

\* deleteRelationships that compares the endpoints only
deleteRelationshipsModifierEndpoints(graph, relationships) ==
  Outcome(KnowledgeGraph(
            graph.entities,
            SelectSeq(graph.relationships,
                      LAMBDA r : ~ \E i \in 1..Len(relationships) :
                                     /\ r.from = relationships[i].from
                                     /\ r.to = relationships[i].to)),
          <<>>)

\* deleteRelationships that removes, for each given triple, only the first
\* stored relationship equal to it
deleteRelationshipsModifierFirstMatch(graph, relationships) ==
  LET kept == {i \in 1..Len(graph.relationships) :
                 \/ ~ \E k \in 1..Len(relationships) :
                        graph.relationships[i] = relationships[k]
                 \/ \E h \in 1..(i - 1) :
                      graph.relationships[h] = graph.relationships[i]}
  IN Outcome(KnowledgeGraph(
               graph.entities,
               [k \in 1..Cardinality(kept) |->
                  graph.relationships[CHOOSE i \in kept :
                                        Cardinality({h \in kept : h <= i}) = k]]),
             <<>>)

deleteRelationshipsModifier(graph, relationships) ==
  Outcome(KnowledgeGraph(
            graph.entities,
            SelectSeq(graph.relationships,
                      LAMBDA r : ~ \E i \in 1..Len(relationships) :
                                     /\ r.from = relationships[i].from
                                     /\ r.to = relationships[i].to
                                     /\ relationships[i].relationshipType
                                          = r.relationshipType)),
          <<>>)

(***************************************************************************)
(* Queries.  A string that is searched is a sequence of characters.        *)
(***************************************************************************)
LowerChar(c) ==
  CASE c = "A" -> "a"
    [] c = "B" -> "b"
    [] c = "C" -> "c"
    [] OTHER -> c

\* String.prototype.toLowerCase
toLowerCase(str) == [i \in 1..Len(str) |-> LowerChar(str[i])]

\* String.prototype.includes
StringIncludes(str, part) ==
  \E k \in 0..(Len(str) - Len(part)) : \A i \in 1..Len(part) : str[k + i] = part[i]

\* the entities at the positions kept, with the relationships touching them
\* _filterGraph keeping a relationship only when both endpoints were kept
filterGraphBothEndpoints(graph, kept) ==
  LET filteredEntities ==
        [k \in 1..Cardinality(kept) |->
           graph.entities[CHOOSE i \in kept : Cardinality({j \in kept : j <= i}) = k]]
      filteredEntityNames ==
        {filteredEntities[k].name : k \in 1..Len(filteredEntities)}
  IN KnowledgeGraph(
       filteredEntities,
       SelectSeq(graph.relationships,
                 LAMBDA r : r.from \in filteredEntityNames
                            /\ r.to \in filteredEntityNames))

filterGraph(graph, kept) ==
  LET filteredEntities ==
        [k \in 1..Cardinality(kept) |->
           graph.entities[CHOOSE i \in kept : Cardinality({j \in kept : j <= i}) = k]]
      filteredEntityNames == {filteredEntities[k].name : k \in 1..Len(filteredEntities)}
      filteredRelationships ==
        SelectSeq(graph.relationships,
                  LAMBDA r : r.from \in filteredEntityNames
                               \/ r.to \in filteredEntityNames)
  IN KnowledgeGraph(filteredEntities, filteredRelationships)

\* searchNodes comparing against the query as typed
searchNodesRawQuery(graph, q) ==
  filterGraph(graph,
    {i \in 1..Len(graph.entities) :
       \/ StringIncludes(toLowerCase(graph.entities[i].name), q)
       \/ StringIncludes(toLowerCase(graph.entities[i].entityType), q)
       \/ \E k \in 1..Len(graph.entities[i].observations) :
            StringIncludes(toLowerCase(graph.entities[i].observations[k]), q)})

\* searchNodes answering the empty query with the whole graph
searchNodesEmptyAll(graph, q) ==
  IF q = <<>>
  THEN graph
  ELSE filterGraph(graph,
         {i \in 1..Len(graph.entities) :
            \/ StringIncludes(toLowerCase(graph.entities[i].name), toLowerCase(q))
            \/ StringIncludes(toLowerCase(graph.entities[i].entityType), toLowerCase(q))
            \/ \E k \in 1..Len(graph.entities[i].observations) :
                 StringIncludes(toLowerCase(graph.entities[i].observations[k]),
                                toLowerCase(q))})

searchNodes(graph, q) ==
  LET lowerCaseQuery == toLowerCase(q)
  IN filterGraph(graph,
       {i \in 1..Len(graph.entities) :
          \/ StringIncludes(toLowerCase(graph.entities[i].name), lowerCaseQuery)
          \/ StringIncludes(toLowerCase(graph.entities[i].entityType), lowerCaseQuery)
          \/ \E o \in 1..Len(graph.entities[i].observations) :
               StringIncludes(toLowerCase(graph.entities[i].observations[o]),
                              lowerCaseQuery)})

\* openNodes comparing names without regard to case
openNodesIgnoreCase(graph, names) ==
  filterGraph(graph,
    {i \in 1..Len(graph.entities) :
       \E k \in 1..Len(names) :
         toLowerCase(names[k]) = toLowerCase(graph.entities[i].name)})

openNodes(graph, names) ==
  filterGraph(graph, {i \in 1..Len(graph.entities) :
                        Includes(names, graph.entities[i].name)})

(***************************************************************************)
(* Concurrent callers and the file of the file store.                      *)
(***************************************************************************)
(***************************************************************************)
(* FileGraphStore: one JSON object per line, entities first.  A file is    *)
(* its status for a read and its content as the lines between newlines; a  *)
(* line is blank or the text of an object, given by its members in order,  *)
(* complete or cut short.  Strings are atomic values.                      *)
(***************************************************************************)
BlankLine == [blank |-> TRUE, members |-> <<>>, complete |-> TRUE]

\* JSON.stringify of an object with the given members
stringify(members) == [blank |-> FALSE, members |-> members, complete |-> TRUE]

\* JSON.parse of a complete line: the object its members build, a later
\* member of a key replacing an earlier one
parse(line) ==
  [k \in {line.members[i][1] : i \in 1..Len(line.members)} |->
     line.members[CHOOSE i \in 1..Len(line.members) :
                    /\ line.members[i][1] = k
                    /\ \A j \in (i + 1)..Len(line.members) :
                         line.members[j][1] # k][2]]

\* the members of { type: t, ...item }: type first, its value replaced by the
\* item's own type when it has one, then the item's fields in keys order
Spread(t, item, keys) ==
  <<<<"type", IF "type" \in DOMAIN item THEN item.type ELSE t>>>>
    \o [i \in 1..Len(keys) |-> <<keys[i], item[keys[i]]>>]

\* lines.join('\n') and, on reading, fileContent.split('\n')
JoinSplit(lines) == IF lines = <<>> THEN <<BlankLine>> ELSE lines

\* the file left by saveGraph(graph)
FileGraphStore_saveGraph(graph) ==
  [status |-> "ok",
   lines |-> JoinSplit(
     [i \in 1..Len(graph.entities) |->
        stringify(Spread("entity", graph.entities[i],
                         <<"name", "entityType", "observations">>))]
     \o [i \in 1..Len(graph.relationships) |->
           stringify(Spread("relationship", graph.relationships[i],
                            <<"from", "to", "relationshipType">>))])]

HasType(item, t) == "type" \in DOMAIN item /\ item.type = t

\* loadGraph that answers every failure with the empty graph
FileGraphStore_loadGraphLenient(f) ==
  IF f.status # "ok"
  THEN Outcome(EmptyGraph, EmptyGraph)
  ELSE LET lines == SelectSeq(f.lines, LAMBDA line : ~ line.blank)
       IN IF \E i \in 1..Len(lines) : ~ lines[i].complete
          THEN Outcome(EmptyGraph, EmptyGraph)
          ELSE LET items == [i \in 1..Len(lines) |-> parse(lines[i])]
                   loadedGraph ==
                     KnowledgeGraph(
                       SelectSeq(items, LAMBDA item : HasType(item, "entity")),
                       SelectSeq(items, LAMBDA item : HasType(item, "relationship")))
               IN Outcome(loadedGraph, loadedGraph)

\* loadGraph() on file f: the graph returned or the error thrown
FileGraphStore_loadGraph(f) ==
  IF f.status = "ENOENT"
  THEN Outcome(EmptyGraph, EmptyGraph)
  ELSE IF f.status # "ok"
  THEN Thrown(EmptyGraph, <<f.status>>)
  ELSE LET lines == SelectSeq(f.lines, LAMBDA line : ~ line.blank)
       IN IF \E i \in 1..Len(lines) : ~ lines[i].complete
          THEN Thrown(EmptyGraph, <<"SyntaxError">>)
          ELSE LET items == [i \in 1..Len(lines) |-> parse(lines[i])]
                   loadedGraph ==
                     KnowledgeGraph(
                       SelectSeq(items, LAMBDA item : HasType(item, "entity")),
                       SelectSeq(items, LAMBDA item : HasType(item, "relationship")))
               IN Outcome(loadedGraph, loadedGraph)

Processes == {"A", "B"}

Idle == [pc |-> "idle"]

FileMissing == [status |-> "ENOENT", lines |-> <<>>]

(***************************************************************************)
(* Graph._withGraphPersistence: load, run the modifier, save, return.  A   *)
(* modifier that throws leaves before the save.                            *)
(***************************************************************************)
\* the session the engine hands to the store for a call made under sessionId
SessionOf(sessionId) == sessionId

\* exploration bound on the relationships a call may leave in memory
Fits(graph) == Len(graph.relationships) <= MaxRelationships

\* record of the call just completed: what it was given, what it loaded, the
\* graph it held in memory when the modifier ended, and what the caller got;
\* repeated: the call before it was the same operation with the same arguments
Call(op, sessionId, arg, loaded, out) ==
  [op |-> op, sessionId |-> sessionId, arg |-> arg, loaded |-> loaded,
   memory |-> out.graph, result |-> out.result, threw |-> out.threw,
   error |-> out.error,
   repeated |-> (last.op = op /\ last.sessionId = sessionId /\ last.arg = arg)]

\* _withGraphPersistence that saves the graph whether or not the modifier threw
withGraphPersistenceAlwaysSave(op, sessionId, arg, out) ==
  LET graph == loadGraph(SessionOf(sessionId))
  IN /\ Fits(out.graph)
     /\ graphs' = saveGraph(SessionOf(sessionId), out.graph)
     /\ written' = written \cup {sessionId}
     /\ last' = Call(op, sessionId, arg, graph, out)
     /\ UNCHANGED <<inflight, file, sessionFiles>>

\* _withGraphPersistence that writes the loaded graph back when the modifier
\* threw
withGraphPersistenceRestore(op, sessionId, arg, out) ==
  LET graph == loadGraph(SessionOf(sessionId))
  IN /\ Fits(out.graph)
     /\ graphs' = saveGraph(SessionOf(sessionId),
                            IF out.threw THEN graph ELSE out.graph)
     /\ written' = written \cup {sessionId}
     /\ last' = Call(op, sessionId, arg, graph, out)
     /\ UNCHANGED <<inflight, file, sessionFiles>>

\* out: what the modifier made of the graph loaded for the session
withGraphPersistence(op, sessionId, arg, out) ==
  LET graph == loadGraph(SessionOf(sessionId))
  IN /\ Fits(out.graph)
     /\ graphs' = IF out.threw THEN graphs
                  ELSE saveGraph(SessionOf(sessionId), out.graph)
     /\ written' = IF out.threw THEN written ELSE written \cup {sessionId}
     /\ last' = Call(op, sessionId, arg, graph, out)
     /\ UNCHANGED <<inflight, file, sessionFiles>>

(***************************************************************************)
(* Engine operations.                                                      *)
(***************************************************************************)
CreateEntities(sessionId, entities) ==
  withGraphPersistence("createEntities", sessionId, entities,
    createEntitiesModifier(loadGraph(SessionOf(sessionId)), entities))

CreateRelationships(sessionId, relationships) ==
  withGraphPersistence("createRelationships", sessionId, relationships,
    createRelationshipsModifier(loadGraph(SessionOf(sessionId)), relationships))

AddObservations(sessionId, observations) ==
  withGraphPersistence("addObservations", sessionId, observations,
    addObservationsModifier(loadGraph(SessionOf(sessionId)), observations))

DeleteEntities(sessionId, entityNames) ==
  withGraphPersistence("deleteEntities", sessionId, entityNames,
    deleteEntitiesModifier(loadGraph(SessionOf(sessionId)), entityNames))

DeleteObservations(sessionId, deletions) ==
  withGraphPersistence("deleteObservations", sessionId, deletions,
    deleteObservationsModifier(loadGraph(SessionOf(sessionId)), deletions))

DeleteRelationships(sessionId, relationships) ==
  withGraphPersistence("deleteRelationships", sessionId, relationships,
    deleteRelationshipsModifier(loadGraph(SessionOf(sessionId)), relationships))

ReadGraph(sessionId) ==
  /\ last' = Call("readGraph", sessionId, <<>>, loadGraph(SessionOf(sessionId)),
                  Outcome(loadGraph(SessionOf(sessionId)),
                          loadGraph(SessionOf(sessionId))))
  /\ UNCHANGED <<graphs, written, inflight, file, sessionFiles>>

\* a query: one load, the filter, no save
query(op, sessionId, arg, result) ==
  /\ last' = Call(op, sessionId, arg, loadGraph(SessionOf(sessionId)),
                  Outcome(loadGraph(SessionOf(sessionId)), result))
  /\ UNCHANGED <<graphs, written, inflight, file, sessionFiles>>

SearchNodes(sessionId, q) ==
  query("searchNodes", sessionId, q, searchNodes(loadGraph(SessionOf(sessionId)), q))

OpenNodes(sessionId, names) ==
  query("openNodes", sessionId, names, openNodes(loadGraph(SessionOf(sessionId)), names))

(***************************************************************************)
(* A mutating call as the two steps its awaits separate: the load, then    *)
(* the modifier on the loaded copy followed by the save.  Another call may *)
(* run between the two.                                                    *)
(***************************************************************************)
MutatingOps ==
  {"createEntities", "createRelationships", "addObservations",
   "deleteEntities", "deleteObservations", "deleteRelationships"}

\* the callback an operation hands to _withGraphPersistence
modifierOf(op, graph, arg) ==
  CASE op = "createEntities" -> createEntitiesModifier(graph, arg)
    [] op = "createRelationships" -> createRelationshipsModifier(graph, arg)
    [] op = "addObservations" -> addObservationsModifier(graph, arg)
    [] op = "deleteEntities" -> deleteEntitiesModifier(graph, arg)
    [] op = "deleteObservations" -> deleteObservationsModifier(graph, arg)
    [] op = "deleteRelationships" -> deleteRelationshipsModifier(graph, arg)

\* const graph = await this.store.loadGraph()
Begin(p, op, sessionId, arg) ==
  /\ inflight[p].pc # "loaded"
  /\ inflight' = [inflight EXCEPT ![p] =
                    [pc |-> "loaded", op |-> op, sessionId |-> sessionId,
                     arg |-> arg, graph |-> loadGraph(SessionOf(sessionId))]]
  /\ UNCHANGED <<graphs, written, last, file, sessionFiles>>

QueryOps == {"readGraph", "searchNodes", "openNodes"}

\* what a query makes of the graph it loaded
queryOf(op, graph, arg) ==
  CASE op = "readGraph" -> graph
    [] op = "searchNodes" -> searchNodes(graph, arg)
    [] op = "openNodes" -> openNodes(graph, arg)

\* the outcome of a query: the graph it loaded, untouched, and its answer
Answer(call) == Outcome(call.graph, queryOf(call.op, call.graph, call.arg))

\* what process p holds once its call has returned; savedLast: no save has
\* happened since its own
Returned(call, out) ==
  [pc |-> "returned", op |-> call.op, sessionId |-> call.sessionId,
   arg |-> call.arg, loaded |-> call.graph, result |-> out.result,
   threw |-> out.threw, savedLast |-> ~ out.threw]

Finish(p, out) ==
  /\ Fits(out.graph)
  /\ graphs' = IF out.threw THEN graphs
               ELSE saveGraph(SessionOf(inflight[p].sessionId), out.graph)
  /\ written' = IF out.threw THEN written
                ELSE written \cup {inflight[p].sessionId}
  /\ last' = Call(inflight[p].op, inflight[p].sessionId, inflight[p].arg,
                  inflight[p].graph, out)
  /\ inflight' = [q \in Processes |->
                    IF q = p THEN Returned(inflight[p], out)
                    ELSE IF inflight[q].pc = "returned" /\ ~ out.threw
                         THEN [inflight[q] EXCEPT !.savedLast = FALSE]
                         ELSE inflight[q]]
  /\ UNCHANGED <<file, sessionFiles>>

\* a call that runs its modifier on the graph stored at the time of its save
CompleteOnStored(p) ==
  /\ inflight[p].pc = "loaded"
  /\ inflight[p].op \in MutatingOps
  /\ Finish(p, modifierOf(inflight[p].op,
                          loadGraph(SessionOf(inflight[p].sessionId)),
                          inflight[p].arg))

\* a call that saves the stored graph with its own additions appended
CompleteMerging(p) ==
  LET out == modifierOf(inflight[p].op, inflight[p].graph, inflight[p].arg)
      stored == loadGraph(SessionOf(inflight[p].sessionId))
  IN /\ inflight[p].pc = "loaded"
     /\ inflight[p].op \in MutatingOps
     /\ Finish(p, IF inflight[p].op = "createEntities"
                  THEN [out EXCEPT !.graph =
                          KnowledgeGraph(stored.entities \o out.result,
                                         stored.relationships)]
                  ELSE out)

\* const result = modifier(graph); await this.store.saveGraph(graph)
Complete(p) ==
  /\ inflight[p].pc = "loaded"
  /\ inflight[p].op \in MutatingOps
  /\ Finish(p, modifierOf(inflight[p].op, inflight[p].graph, inflight[p].arg))

\* a query routed through the load-and-save helper: it writes back its copy
CompleteQuerySaving(p) ==
  /\ inflight[p].pc = "loaded"
  /\ inflight[p].op \in QueryOps
  /\ graphs' = saveGraph(SessionOf(inflight[p].sessionId), inflight[p].graph)
  /\ last' = Call(inflight[p].op, inflight[p].sessionId, inflight[p].arg,
                  inflight[p].graph, Answer(inflight[p]))
  /\ inflight' = [inflight EXCEPT ![p] =
                    [Returned(inflight[p], Answer(inflight[p]))
                       EXCEPT !.savedLast = FALSE]]
  /\ UNCHANGED <<written, file, sessionFiles>>

\* the continuation of a query after its load: filter and return, no save
CompleteQuery(p) ==
  /\ inflight[p].pc = "loaded"
  /\ inflight[p].op \in QueryOps
  /\ last' = Call(inflight[p].op, inflight[p].sessionId, inflight[p].arg,
                  inflight[p].graph, Answer(inflight[p]))
  /\ inflight' = [inflight EXCEPT ![p] =
                    [Returned(inflight[p], Answer(inflight[p]))
                       EXCEPT !.savedLast = FALSE]]
  /\ UNCHANGED <<graphs, written, file, sessionFiles>>

(***************************************************************************)
(* The file store used directly, and what can happen to its file between   *)
(* calls.                                                                  *)
(***************************************************************************)
\* await store.saveGraph(graph): writeFile replaces the content, or fails on a
\* file that cannot be opened
SaveGraphFile(graph) ==
  /\ file' = IF file.status = "EACCES" THEN file
             ELSE FileGraphStore_saveGraph(graph)
  /\ last' = Call("saveGraph", Undefined, graph, EmptyGraph,
                  IF file.status = "EACCES"
                  THEN Thrown(graph, <<"EACCES">>)
                  ELSE Outcome(graph, <<>>))
  /\ UNCHANGED <<graphs, written, inflight, sessionFiles>>

\* await store.loadGraph(); arg records the file read
LoadGraphFile ==
  /\ last' = Call("loadGraph", Undefined, file, EmptyGraph,
                  FileGraphStore_loadGraph(file))
  /\ UNCHANGED <<graphs, written, inflight, file, sessionFiles>>

\* the file is deleted
RemoveFile ==
  /\ file.status # "ENOENT"
  /\ file' = FileMissing
  /\ UNCHANGED <<graphs, written, last, inflight, sessionFiles>>

\* the file becomes unreadable to the process
ProtectFile ==
  /\ file.status = "ok"
  /\ file' = [file EXCEPT !.status = "EACCES"]
  /\ UNCHANGED <<graphs, written, last, inflight, sessionFiles>>

\* the last line is cut short, as by an interrupted write
TruncateFile ==
  /\ file.status = "ok"
  /\ ~ file.lines[Len(file.lines)].blank
  /\ file.lines[Len(file.lines)].complete
  /\ file' = [file EXCEPT !.lines[Len(file.lines)].complete = FALSE]
  /\ UNCHANGED <<graphs, written, last, inflight, sessionFiles>>

\* a newline is appended, leaving a blank last line
AppendNewline ==
  /\ file.status = "ok"
  /\ ~ file.lines[Len(file.lines)].blank
  /\ file' = [file EXCEPT !.lines = @ \o <<BlankLine>>]
  /\ UNCHANGED <<graphs, written, last, inflight, sessionFiles>>

(***************************************************************************)
(* The engine over a FileGraphStore, the store the tools build by default. *)
(***************************************************************************)
\* _withGraphPersistence with the file store: a failed load or a throwing
\* modifier leaves before the save
FileCall(op, arg) ==
  LET loaded == FileGraphStore_loadGraph(file)
      out == IF loaded.threw THEN loaded ELSE modifierOf(op, loaded.graph, arg)
  IN /\ Fits(out.graph)
     /\ file' = IF out.threw THEN file ELSE FileGraphStore_saveGraph(out.graph)
     /\ last' = Call(op, Undefined, arg, loaded.graph, out)
     /\ UNCHANGED <<graphs, written, inflight, sessionFiles>>

\* readGraph with the file store: return this.store.loadGraph()
FileReadGraph ==
  /\ last' = Call("readGraph", Undefined, <<>>, FileGraphStore_loadGraph(file).graph,
                  FileGraphStore_loadGraph(file))
  /\ UNCHANGED <<graphs, written, inflight, file, sessionFiles>>

(***************************************************************************)
(* FileKeyValueStore: one JSON object per session file.  A Map is the      *)
(* sequence of its <<key, value>> entries in insertion order.              *)
(***************************************************************************)
\* sessionId ? `${this.memoryFilePath}.${sessionId}` : this.memoryFilePath
getSessionFilePath(sessionId) ==
  IF sessionId \in {Undefined, ""}
  THEN <<"memoryFilePath">>
  ELSE <<"memoryFilePath", sessionId>>

KeysOf(data) == [i \in 1..Len(data) |-> data[i][1]]

\* data.get(key): the value, or undefined
MapGet(data, key) ==
  IF Includes(KeysOf(data), key)
  THEN data[CHOOSE i \in 1..Len(data) : data[i][1] = key][2]
  ELSE Undefined

\* data.set that leaves a key it already holds as it is
MapSetIfAbsent(data, key, value) ==
  IF Includes(KeysOf(data), key) THEN data ELSE Append(data, <<key, value>>)

\* data.set(key, value): a new key goes last, a known key keeps its place
MapSet(data, key, value) ==
  IF Includes(KeysOf(data), key)
  THEN [i \in 1..Len(data) |-> IF data[i][1] = key THEN <<key, value>> ELSE data[i]]
  ELSE Append(data, <<key, value>>)

\* data.delete(key)
MapDelete(data, key) == SelectSeq(data, LAMBDA entry : entry[1] # key)

\* the array index a property key spells, or 0 when it spells none
ArrayIndex(key) == CASE key = "1" -> 1 [] key = "2" -> 2 [] OTHER -> 0

\* the own properties of an object in enumeration order: the keys spelling
\* array indices first, ascending, then the others in creation order
ObjectEntries(entries) ==
  LET indexed == {i \in 1..Len(entries) : ArrayIndex(entries[i][1]) > 0}
      rank(i) == Cardinality({j \in indexed :
                                ArrayIndex(entries[j][1]) <= ArrayIndex(entries[i][1])})
  IN [k \in 1..Cardinality(indexed) |->
        entries[CHOOSE i \in indexed : rank(i) = k]]
     \o SelectSeq(entries, LAMBDA entry : ArrayIndex(entry[1]) = 0)

\* the sessions the key-value store is called with
StoreSessionIds == SessionIds \cup {"session2"}

SessionFileMissing == [status |-> "ENOENT", members |-> <<>>]

\* _load(sessionId): new Map(Object.entries(JSON.parse(content))), the empty
\* Map when the file does not exist
loadMap(sessionId) ==
  LET f == sessionFiles[getSessionFilePath(sessionId)]
  IN IF f.status = "ENOENT" THEN <<>> ELSE ObjectEntries(f.members)

\* _save that writes every session's data to the base file
saveMapShared(sessionId, data) ==
  [sessionFiles EXCEPT ![getSessionFilePath(Undefined)] =
     [status |-> "ok", members |-> ObjectEntries(data)]]

\* _save(sessionId, data): JSON.stringify(Object.fromEntries(data)) written to
\* the session's file
saveMap(sessionId, data) ==
  [sessionFiles EXCEPT ![getSessionFilePath(sessionId)] =
     [status |-> "ok", members |-> ObjectEntries(data)]]

Entry(key, value) == [key |-> key, value |-> value]

\* for (const entry of opts.entries) data.set(entry.key, entry.value)
RECURSIVE setEntries(_, _, _)
setEntries(data, entries, i) ==
  IF i > Len(entries) THEN data
  ELSE setEntries(MapSet(data, entries[i].key, entries[i].value), entries, i + 1)

\* the entries load returns from data; opts may have no keys field
loadEntries(data, opts) ==
  IF "keys" \in DOMAIN opts /\ Len(opts.keys) > 0
  THEN LET found == SelectSeq(opts.keys, LAMBDA key : MapGet(data, key) # Undefined)
       IN [i \in 1..Len(found) |-> Entry(found[i], MapGet(data, found[i]))]
  ELSE [i \in 1..Len(data) |-> Entry(data[i][1], data[i][2])]

\* the record of a store call: data as loaded, data as left in memory
storeCall(op, opts, data, result) ==
  /\ last' = Call(op, opts.sessionId, opts, loadMap(opts.sessionId),
                  Outcome(data, result))
  /\ UNCHANGED <<graphs, written, inflight, file>>

save(opts) ==
  /\ sessionFiles' = saveMap(opts.sessionId,
                             setEntries(loadMap(opts.sessionId), opts.entries, 1))
  /\ storeCall("save", opts,
               setEntries(loadMap(opts.sessionId), opts.entries, 1), <<>>)

load(opts) ==
  /\ sessionFiles' = sessionFiles
  /\ storeCall("load", opts, loadMap(opts.sessionId),
               loadEntries(loadMap(opts.sessionId), opts))

listKeys(opts) ==
  /\ sessionFiles' = sessionFiles
  /\ storeCall("listKeys", opts, loadMap(opts.sessionId),
               KeysOf(loadMap(opts.sessionId)))

delete(opts) ==
  /\ sessionFiles' = saveMap(opts.sessionId,
                             MapDelete(loadMap(opts.sessionId), opts.key))
  /\ storeCall("delete", opts, MapDelete(loadMap(opts.sessionId), opts.key), <<>>)

(***************************************************************************)
(* Initial state: a fresh store, no call made yet.                         *)
(***************************************************************************)
Init ==
  /\ graphs = <<>>
  /\ written = {}
  /\ last = [op |-> "none", sessionId |-> Undefined, arg |-> <<>>,
             loaded |-> EmptyGraph, memory |-> EmptyGraph, result |-> <<>>,
             threw |-> FALSE, error |-> <<>>, repeated |-> FALSE]
  /\ inflight = [p \in Processes |-> Idle]
  /\ file = FileMissing
  /\ sessionFiles = [filePath \in {getSessionFilePath(sessionId) :
                                      sessionId \in StoreSessionIds}
                       |-> SessionFileMissing]

(***************************************************************************)
(* Spec: every operation under every session, over a one-name vocabulary.  *)
(***************************************************************************)
EntityInputs == {Entity("a", "t", <<>>)}

RelationshipInputs == {Relationship("a", "a", "r")}

ObservationInputs == {Observation("a", <<"o1">>)}

DeletionInputs == {DeletedObservation("a", <<"o1">>)}

Next ==
  \E sessionId \in SessionIds :
    \/ \E entities \in SeqsUpTo(EntityInputs, MaxBatch) :
         CreateEntities(sessionId, entities)
    \/ \E relationships \in SeqsUpTo(RelationshipInputs, MaxBatch) :
         CreateRelationships(sessionId, relationships)
    \/ \E observations \in SeqsUpTo(ObservationInputs, MaxBatch) :
         AddObservations(sessionId, observations)
    \/ \E entityNames \in SeqsUpTo({"a"}, MaxBatch) :
         DeleteEntities(sessionId, entityNames)
    \/ \E deletions \in SeqsUpTo(DeletionInputs, MaxBatch) :
         DeleteObservations(sessionId, deletions)
    \/ \E relationships \in SeqsUpTo(RelationshipInputs, MaxBatch) :
         DeleteRelationships(sessionId, relationships)
    \/ ReadGraph(sessionId)

Spec == Init /\ [][Next]_vars

(***************************************************************************)
(* SpecEntities: entities created and deleted in the global session; two   *)
(* names, two entities that share a name but differ in type, and one       *)
(* relationship between the names.                                         *)
(***************************************************************************)
Names == {"a", "b"}

CreateEntityInputs ==
  {Entity("a", "t1", <<>>), Entity("a", "t2", <<>>), Entity("b", "t1", <<>>)}

NextEntities ==
  \/ \E entities \in SeqsUpTo(CreateEntityInputs, MaxBatch) :
       CreateEntities(Undefined, entities)
  \/ CreateRelationships(Undefined, <<Relationship("a", "b", "r1")>>)
  \/ \E entityNames \in SeqsUpTo(Names, MaxBatch) :
       DeleteEntities(Undefined, entityNames)

SpecEntities == Init /\ [][NextEntities]_vars

(***************************************************************************)
(* SpecRelationships: relationships created and deleted in the global      *)
(* session; the triples differ from the first in exactly one field.        *)
(***************************************************************************)
CreateRelationshipInputs ==
  {Relationship("a", "b", "r1"), Relationship("b", "b", "r1"),
   Relationship("a", "a", "r1"), Relationship("a", "b", "r2")}

NextRelationships ==
  \/ \E relationships \in SeqsUpTo(CreateRelationshipInputs, MaxBatch) :
       CreateRelationships(Undefined, relationships)
  \/ \E relationships \in SeqsUpTo({Relationship("a", "b", "r1"),
                                    Relationship("a", "b", "r2")}, MaxBatch) :
       DeleteRelationships(Undefined, relationships)

SpecRelationships == Init /\ [][NextRelationships]_vars

(***************************************************************************)
(* SpecCreate: both creation operations, undone by deleteEntities.         *)
(***************************************************************************)
NextCreate ==
  \/ \E entities \in SeqsUpTo({Entity("a", "t1", <<>>), Entity("b", "t1", <<>>)},
                              MaxBatch) :
       CreateEntities(Undefined, entities)
  \/ \E relationships \in SeqsUpTo({Relationship("a", "b", "r1"),
                                    Relationship("a", "b", "r2")}, MaxBatch) :
       CreateRelationships(Undefined, relationships)
  \/ \E entityNames \in SeqsUpTo(Names, MaxBatch) :
       DeleteEntities(Undefined, entityNames)

SpecCreate == Init /\ [][NextCreate]_vars

(***************************************************************************)
(* SpecObservations: observations added to and deleted from the entities   *)
(* of the global session.                                                  *)
(***************************************************************************)
ObsEntityInputs == {Entity("a", "t", <<>>), Entity("b", "t", <<"o1">>)}

AddObservationInputs ==
  {Observation("a", <<"o1">>), Observation("a", <<"o2", "o1">>),
   Observation("b", <<"o2">>)}

DeleteObservationInputs ==
  {DeletedObservation("a", <<"o1">>), DeletedObservation("a", <<"o2">>)}

NextObservations ==
  \/ \E entities \in SeqsUpTo(ObsEntityInputs, MaxBatch) :
       CreateEntities(Undefined, entities)
  \/ \E observations \in SeqsUpTo(AddObservationInputs, MaxBatch) :
       AddObservations(Undefined, observations)
  \/ \E entityNames \in SeqsUpTo(Names, MaxBatch) :
       DeleteEntities(Undefined, entityNames)
  \/ \E deletions \in SeqsUpTo(DeleteObservationInputs, MaxBatch) :
       DeleteObservations(Undefined, deletions)

SpecObservations == Init /\ [][NextObservations]_vars

(***************************************************************************)
(* SpecDelete: the three delete operations and openNodes on a graph whose  *)
(* entities repeat an observation and whose relationships touch one or     *)
(* both names.                                                             *)
(***************************************************************************)
DeleteEntityInputs ==
  {Entity("a", "t", <<"o1", "o2", "o1">>), Entity("b", "t", <<"o2">>)}

NextDelete ==
  \/ \E entities \in SeqsUpTo(DeleteEntityInputs, 1) :
       CreateEntities(Undefined, entities)
  \/ \E relationships \in {<<Relationship("a", "b", "r1")>>,
                           <<Relationship("a", "a", "r1")>>,
                           <<Relationship("a", "b", "r1"),
                             Relationship("a", "b", "r1")>>} :
       CreateRelationships(Undefined, relationships)
  \/ \E entityNames \in SeqsUpTo(Names, MaxBatch) :
       DeleteEntities(Undefined, entityNames)
  \/ \E deletions \in {<<DeletedObservation("a", <<"o1">>)>>,
                       <<DeletedObservation("b", <<"o2", "o1">>)>>,
                       <<DeletedObservation("b", <<"o1">>),
                         DeletedObservation("a", <<"o2">>)>>} :
       DeleteObservations(Undefined, deletions)
  \/ \E relationships \in {<<Relationship("a", "b", "r1")>>,
                           <<Relationship("a", "b", "r2")>>,
                           <<Relationship("b", "a", "r1"),
                             Relationship("a", "a", "r1")>>} :
       DeleteRelationships(Undefined, relationships)
  \/ \E names \in {<<"a">>, <<"b", "a">>} :
       OpenNodes(Undefined, names)

SpecDelete == Init /\ [][NextDelete]_vars

(***************************************************************************)
(* SpecConcurrent: two callers of one engine on the global partition, each *)
(* call split at its await.                                                *)
(***************************************************************************)
NextConcurrent ==
  \E p \in Processes :
    \/ \E entities \in {<<Entity("a", "t", <<>>)>>, <<Entity("b", "t", <<>>)>>} :
         Begin(p, "createEntities", Undefined, entities)
    \/ \E entityNames \in {<<"a">>} :
         Begin(p, "deleteEntities", Undefined, entityNames)
    \/ \E observations \in {<<Observation("a", <<"o1">>)>>} :
         Begin(p, "addObservations", Undefined, observations)
    \/ Begin(p, "readGraph", Undefined, <<>>)
    \/ Complete(p)
    \/ CompleteQuery(p)

SpecConcurrent == Init /\ [][NextConcurrent]_vars

(***************************************************************************)
(* SpecFile: a FileGraphStore saving and loading graphs while its file is  *)
(* removed, protected, cut short or given a trailing newline.              *)
(***************************************************************************)
FileGraphInputs ==
  {EmptyGraph,
   KnowledgeGraph(<<Entity("a", "t", <<>>)>>, <<>>),
   KnowledgeGraph(<<Entity("b", "t", <<"o1", "o2">>), Entity("a", "t", <<>>)>>,
                  <<Relationship("b", "a", "r1"), Relationship("a", "b", "r1")>>)}

NextFile ==
  \/ \E graph \in FileGraphInputs : SaveGraphFile(graph)
  \/ /\ last.op = "loadGraph" /\ ~ last.threw
     /\ SaveGraphFile(last.result)
  \/ LoadGraphFile
  \/ RemoveFile
  \/ ProtectFile
  \/ TruncateFile
  \/ AppendNewline

SpecFile == Init /\ [][NextFile]_vars

(***************************************************************************)
(* SpecQuery: searchNodes and openNodes over graphs whose strings are      *)
(* spelled out character by character, in both cases.                      *)
(***************************************************************************)
QueryEntityInputs ==
  {Entity(<<"a", "b">>, <<"c">>, <<>>),
   Entity(<<"A", "b">>, <<"b">>, <<<<"C", "a">>>>),
   Entity(<<"c">>, <<"B">>, <<<<"a">>, <<"b", "C">>>>)}

QueryRelationshipInputs ==
  {Relationship(<<"a", "b">>, <<"c">>, "r1"),
   Relationship(<<"c">>, <<"c">>, "r1"),
   Relationship(<<"A", "b">>, <<"a", "b">>, "r1"),
   Relationship(<<"b">>, <<"b">>, "r1")}

Queries ==
  {<<>>, <<"a">>, <<"B">>, <<"c">>, <<"a", "b">>, <<"B", "C">>, <<"b", "c">>,
   <<"c", "a">>, <<"c", "c">>}

OpenInputs ==
  {<<<<"a", "b">>>>, <<<<"A", "b">>, <<"b">>>>, <<<<"c">>, <<"a", "b">>>>,
   <<<<"b">>>>, <<>>}

NextQuery ==
  \/ \E entity \in QueryEntityInputs : CreateEntities(Undefined, <<entity>>)
  \/ \E relationship \in QueryRelationshipInputs :
       CreateRelationships(Undefined, <<relationship>>)
  \/ \E q \in Queries : SearchNodes(Undefined, q)
  \/ \E names \in OpenInputs : OpenNodes(Undefined, names)

SpecQuery == Init /\ [][NextQuery]_vars

(***************************************************************************)
(* SpecFileGraph: the engine's operations on a file-backed graph.          *)
(***************************************************************************)
NextFileGraph ==
  \/ \E entities \in {<<Entity("a", "t", <<>>)>>, <<Entity("b", "t", <<"o1">>)>>} :
       FileCall("createEntities", entities)
  \/ \E relationships \in {<<Relationship("a", "b", "r1")>>,
                            <<Relationship("x", "y", "r1")>>} :
       FileCall("createRelationships", relationships)
  \/ \E observations \in {<<Observation("a", <<"o1">>)>>} :
       FileCall("addObservations", observations)
  \/ \E entityNames \in {<<"a">>, <<"b">>} : FileCall("deleteEntities", entityNames)
  \/ \E relationships \in {<<Relationship("x", "y", "r1")>>} :
       FileCall("deleteRelationships", relationships)
  \/ FileReadGraph

SpecFileGraph == Init /\ [][NextFileGraph]_vars

(***************************************************************************)
(* SpecOrder: all six mutations over two entities, two observations and    *)
(* two relationships, so that every sequence can hold its items in either  *)
(* order.                                                                  *)
(***************************************************************************)
NextOrder ==
  \/ \E entities \in {<<Entity("a", "t", <<>>)>>, <<Entity("b", "t", <<"o2">>)>>} :
       CreateEntities(Undefined, entities)
  \/ \E relationships \in {<<Relationship("a", "b", "r1")>>,
                            <<Relationship("b", "a", "r1")>>} :
       CreateRelationships(Undefined, relationships)
  \/ \E observations \in {<<Observation("a", <<"o1">>)>>,
                           <<Observation("a", <<"o2", "o1">>)>>,
                           <<Observation("b", <<"o1">>)>>} :
       AddObservations(Undefined, observations)
  \/ \E entityNames \in {<<"a">>, <<"b">>} : DeleteEntities(Undefined, entityNames)
  \/ \E deletions \in {<<DeletedObservation("a", <<"o1">>)>>,
                        <<DeletedObservation("b", <<"o2">>)>>} :
       DeleteObservations(Undefined, deletions)
  \/ \E relationships \in {<<Relationship("a", "b", "r1")>>} :
       DeleteRelationships(Undefined, relationships)

SpecOrder == Init /\ [][NextOrder]_vars

(***************************************************************************)
(* SpecKeyValue: the key-value store under the global session and one      *)
(* named session.                                                          *)
(***************************************************************************)
EntryBatches ==
  {<<Entry("k", "v")>>, <<Entry("k", "w")>>, <<Entry("1", "v")>>,
   <<Entry("k", "v"), Entry("k", "w")>>, <<Entry("k", "w"), Entry("1", "w")>>, <<>>}

KeyLists == {<<>>, <<"k">>, <<"k", "1">>, <<"1", "j", "k">>, <<"k", "k">>}

NextKeyValue ==
  \E sessionId \in SessionIds :
    \/ \E entries \in EntryBatches :
         save([sessionId |-> sessionId, entries |-> entries])
    \/ \E keys \in KeyLists : load([sessionId |-> sessionId, keys |-> keys])
    \/ load([sessionId |-> sessionId])
    \/ listKeys([sessionId |-> sessionId])
    \/ \E key \in {"k", "1", "j"} : delete([sessionId |-> sessionId, key |-> key])

SpecKeyValue == Init /\ [][NextKeyValue]_vars

(***************************************************************************)
(* SpecSessions: the key-value store under the global session and two      *)
(* named sessions, one key.                                                *)
(***************************************************************************)
NextSessions ==
  \E sessionId \in StoreSessionIds :
    \/ \E entries \in {<<Entry("k", "v")>>, <<Entry("k", "w")>>} :
         save([sessionId |-> sessionId, entries |-> entries])
    \/ load([sessionId |-> sessionId])
    \/ listKeys([sessionId |-> sessionId])
    \/ delete([sessionId |-> sessionId, key |-> "k"])

SpecSessions == Init /\ [][NextSessions]_vars

(***************************************************************************)
(* SpecRepeats: addObservations and deleteObservations on entities created *)
(* with distinct observations, with batches that repeat a string inside    *)
(* one entry or name one entity in two entries.                            *)
(***************************************************************************)
NextRepeats ==
  \/ \E entities \in {<<Entity("a", "t", <<>>)>>, <<Entity("b", "t", <<"o1">>)>>} :
       CreateEntities(Undefined, entities)
  \/ \E observations \in {<<Observation("a", <<"o1", "o1">>)>>,
                           <<Observation("a", <<"o1">>), Observation("a", <<"o1">>)>>,
                           <<Observation("a", <<"o2">>)>>,
                           <<Observation("b", <<"o1", "o2">>)>>} :
       AddObservations(Undefined, observations)
  \/ \E deletions \in {<<DeletedObservation("a", <<"o1">>)>>,
                        <<DeletedObservation("a", <<"o2">>)>>,
                        <<DeletedObservation("b", <<"o2">>)>>} :
       DeleteObservations(Undefined, deletions)

SpecRepeats == Init /\ [][NextRepeats]_vars

(***************************************************************************)
(* Properties.                                                             *)
(***************************************************************************)
\* the graph persisted for the session of the last call
Persisted == loadGraph(last.sessionId)

CountName(entities, n) == Cardinality({i \in 1..Len(entities) : entities[i].name = n})

SameTriple(r1, r2) ==
  /\ r1.from = r2.from
  /\ r1.to = r2.to
  /\ r1.relationshipType = r2.relationshipType

\* the elements of s at the positions idxs, in the order of s
SubSeqAt(s, idxs) ==
  [k \in 1..Cardinality(idxs) |->
     s[CHOOSE i \in idxs : Cardinality({j \in idxs : j <= i}) = k]]

\* C1: in every reachable state, the persisted graph of every partition holds
\* at most one entity per distinct name.
C1_UniqueEntityNames ==
  \A key \in DOMAIN graphs :
    \A i, j \in 1..Len(graphs[key].entities) :
      graphs[key].entities[i].name = graphs[key].entities[j].name => i = j

\* C2: in every reachable state, no two relationships stored in a partition
\* have the same (from, to, relationshipType) triple.
C2_UniqueRelationshipTriples ==
  \A key \in DOMAIN graphs :
    \A i, j \in 1..Len(graphs[key].relationships) :
      SameTriple(graphs[key].relationships[i], graphs[key].relationships[j]) => i = j

\* a call under one session leaves the graph of every other session as it was,
\* whether or not that session has a stored graph yet
C3_Frame ==
  \A q \in SessionIds :
    q # last'.sessionId =>
      /\ loadGraph(q)' = loadGraph(q)
      /\ (getSessionKey(q) \in DOMAIN graphs') = (getSessionKey(q) \in DOMAIN graphs)

\* a session no call has saved reads as the empty graph, and readGraph returns
\* the graph stored for its own session
C3_ReadsOwnGraph ==
  /\ \A q \in SessionIds \ written : loadGraph(q) = EmptyGraph
  /\ last.op = "readGraph" =>
       /\ last.result = loadGraph(last.sessionId)
       /\ last.sessionId \notin written => last.result = EmptyGraph

NewEntityPositions(loaded, entities) ==
  {i \in 1..Len(entities) :
     \A j \in 1..Len(loaded.entities) : loaded.entities[j].name # entities[i].name}

\* C4: createEntities returns the entities of the batch, in input order, whose
\* name is the name of no entity of the graph as loaded; the persisted entity
\* sequence is the loaded one followed by them; relationships are unchanged.
C4_CreateEntitiesResult ==
  last.op = "createEntities" =>
    LET new == SubSeqAt(last.arg, NewEntityPositions(last.loaded, last.arg))
    IN /\ ~ last.threw
       /\ last.result = new
       /\ Persisted.entities = last.loaded.entities \o new
       /\ Persisted.relationships = last.loaded.relationships

\* a batch with a new entity and one whose name, but not type, is stored, on a
\* graph that has a relationship
C4_Witness ==
  /\ last.op = "createEntities"
  /\ last.loaded.relationships # <<>>
  /\ Len(last.result) = 1
  /\ \E i \in 1..Len(last.arg) :
       /\ CountName(last.loaded.entities, last.arg[i].name) > 0
       /\ ~ Includes(last.loaded.entities, last.arg[i])

\* C5: a second createEntities (createRelationships) call with the batch of the
\* call just before it returns an empty list and leaves the persisted graph as
\* the first call left it.
C5_IdempotentCreation ==
  (last.repeated /\ last.op \in {"createEntities", "createRelationships"}) =>
    /\ last.result = <<>>
    /\ Persisted = last.loaded

\* a batch of two entities given twice in a row
C5_Witness ==
  /\ last.repeated
  /\ last.op = "createEntities"
  /\ Len(last.arg) = 2
  /\ \A i \in 1..Len(last.arg) : Includes(Persisted.entities, last.arg[i])

\* C6: when a name of the batch is not stored, every copy of it in the batch is
\* returned and appended.
C6_BatchDuplicatesKept ==
  last.op = "createEntities" =>
    \A i \in 1..Len(last.arg) :
      CountName(last.loaded.entities, last.arg[i].name) = 0 =>
        /\ CountName(last.result, last.arg[i].name)
             = CountName(last.arg, last.arg[i].name)
        /\ CountName(Persisted.entities, last.arg[i].name)
             = CountName(last.arg, last.arg[i].name)

\* the same unstored name twice in a batch, both copies stored
C6_Witness ==
  /\ last.op = "createEntities"
  /\ Len(last.arg) = 2
  /\ last.arg[1].name = last.arg[2].name
  /\ CountName(last.loaded.entities, last.arg[1].name) = 0
  /\ Len(last.result) = 2
  /\ CountName(Persisted.entities, last.arg[1].name) = 2

\* the positions of a batch whose triple is the triple of no loaded relationship
NewRelationshipPositions(loaded, relationships) ==
  {i \in 1..Len(relationships) :
     \A j \in 1..Len(loaded.relationships) :
       ~ SameTriple(loaded.relationships[j], relationships[i])}

\* the number of fields in which two relationships differ
FieldsApart(r1, r2) ==
  (IF r1.from = r2.from THEN 0 ELSE 1)
    + (IF r1.to = r2.to THEN 0 ELSE 1)
    + (IF r1.relationshipType = r2.relationshipType THEN 0 ELSE 1)

\* C7: createRelationships returns the relationships of the batch, in input
\* order, whose triple equals no stored triple, and appends exactly them; one
\* that differs from a stored relationship in a single field is new.
C7_CreateRelationshipsResult ==
  last.op = "createRelationships" =>
    LET new == SubSeqAt(last.arg, NewRelationshipPositions(last.loaded, last.arg))
    IN /\ ~ last.threw
       /\ last.result = new
       /\ Persisted.relationships = last.loaded.relationships \o new
       /\ Persisted.entities = last.loaded.entities
       /\ \A i \in 1..Len(last.arg) :
            (\A j \in 1..Len(last.loaded.relationships) :
               FieldsApart(last.loaded.relationships[j], last.arg[i]) >= 1)
              => Includes(last.result, last.arg[i])

\* a batch with a stored triple and one that differs from it in the type only
C7_Witness ==
  /\ last.op = "createRelationships"
  /\ Len(last.loaded.relationships) = 1
  /\ Len(last.arg) = 2
  /\ Len(last.result) = 1
  /\ FieldsApart(last.loaded.relationships[1], last.result[1]) = 1
  /\ last.loaded.relationships[1].relationshipType # last.result[1].relationshipType

\* what the results before position k added to the entity named n
RECURSIVE AddedBefore(_, _, _)
AddedBefore(results, n, k) ==
  IF k <= 1
  THEN <<>>
  ELSE AddedBefore(results, n, k - 1)
         \o (IF results[k - 1].entityName = n
             THEN results[k - 1].addedObservations
             ELSE <<>>)

\* C8: a successful addObservations returns one result per entry, in entry
\* order; addedObservations is the contents, in input order, not already among
\* the entity's observations when the entry is reached, and the entity's
\* persisted observations are its loaded ones followed by what was added.
C8_AddObservationsResult ==
  (last.op = "addObservations" /\ ~ last.threw) =>
    /\ Len(last.result) = Len(last.arg)
    /\ \A k \in 1..Len(last.arg) :
         LET n == last.arg[k].entityName
             idx == FindEntityIndex(last.loaded.entities, n)
             before == last.loaded.entities[idx].observations
             prior == before \o AddedBefore(last.result, n, k)
             fresh == {i \in 1..Len(last.arg[k].contents) :
                         ~ Includes(prior, last.arg[k].contents[i])}
         IN /\ idx > 0
            /\ last.result[k].entityName = n
            /\ last.result[k].addedObservations = SubSeqAt(last.arg[k].contents, fresh)
            /\ Persisted.entities[idx].observations
                 = before \o AddedBefore(last.result, n, Len(last.arg) + 1)

\* contents with a new string before a stored one: only the new one is added
C8_Witness ==
  /\ last.op = "addObservations"
  /\ ~ last.threw
  /\ \E k \in 1..Len(last.arg) :
       LET idx == FindEntityIndex(last.loaded.entities, last.arg[k].entityName)
       IN /\ last.loaded.entities[idx].observations = <<"o1">>
          /\ last.arg[k].contents = <<"o2", "o1">>
          /\ last.result[k].addedObservations = <<"o2">>
          /\ Persisted.entities[idx].observations = <<"o1", "o2">>

\* the entries of the last call that name no loaded entity
MissingPositions ==
  {k \in 1..Len(last.arg) : CountName(last.loaded.entities, last.arg[k].entityName) = 0}

FirstMissing == CHOOSE k \in MissingPositions : \A j \in MissingPositions : k <= j

\* C9: addObservations fails at the first entry, in input order, that names no
\* stored entity, with 'Entity with name <entityName> not found'; no result is
\* returned and the entries after it are not processed.
C9_FailsAtFirstMissing ==
  last.op = "addObservations" =>
    /\ last.threw = (MissingPositions # {})
    /\ last.threw =>
         /\ last.error = <<"Entity with name ", last.arg[FirstMissing].entityName,
                           " not found">>
         /\ last.result = <<>>
         /\ last.memory
              = addObservationsModifier(last.loaded,
                                        SubSeq(last.arg, 1, FirstMissing - 1)).graph

\* the first entry names a missing entity, the second a stored one to which it
\* would have added
C9_Witness ==
  /\ last.op = "addObservations"
  /\ last.threw
  /\ Len(last.arg) = 2
  /\ FirstMissing = 1
  /\ LET idx == FindEntityIndex(last.loaded.entities, last.arg[2].entityName)
     IN /\ idx > 0
        /\ \E i \in 1..Len(last.arg[2].contents) :
             ~ Includes(last.loaded.entities[idx].observations, last.arg[2].contents[i])
  /\ last.memory = last.loaded

\* C10 as stated: after a failed addObservations the observations added by the
\* entries before the failing one are in the stored graph.
C10_PartialPersisted ==
  (last.op = "addObservations" /\ last.threw) => Persisted = last.memory

\* C10: after a failed addObservations the observations added in memory by the
\* entries before the failing one are not stored: the stored graph of the
\* session is the graph the call loaded.
C10_FailedCallNotSaved ==
  (last.op = "addObservations" /\ last.threw) => Persisted = last.loaded

\* an entry that added to a stored entity, then an entry naming a missing one
C10_Witness ==
  /\ last.op = "addObservations"
  /\ last.threw
  /\ FirstMissing = 2
  /\ last.memory # last.loaded
  /\ Persisted # last.memory

\* C11: after deleteEntities(names) the persisted graph has no entity named in
\* names and no relationship with an endpoint in names; the other entities and
\* the relationships with both endpoints outside names are all still there.
C11_CascadingDelete ==
  last.op = "deleteEntities" =>
    /\ ~ last.threw
    /\ \A i \in 1..Len(Persisted.entities) :
         ~ Includes(last.arg, Persisted.entities[i].name)
    /\ \A i \in 1..Len(Persisted.relationships) :
         /\ ~ Includes(last.arg, Persisted.relationships[i].from)
         /\ ~ Includes(last.arg, Persisted.relationships[i].to)
    /\ Persisted.entities
         = SubSeqAt(last.loaded.entities,
                    {i \in 1..Len(last.loaded.entities) :
                       ~ Includes(last.arg, last.loaded.entities[i].name)})
    /\ Persisted.relationships
         = SubSeqAt(last.loaded.relationships,
                    {i \in 1..Len(last.loaded.relationships) :
                       /\ ~ Includes(last.arg, last.loaded.relationships[i].from)
                       /\ ~ Includes(last.arg, last.loaded.relationships[i].to)})

\* deleting b from a graph with a, b, a->b and a->a leaves a and a->a
C11_Witness ==
  /\ last.op = "deleteEntities"
  /\ last.arg = <<"b">>
  /\ CountName(last.loaded.entities, "a") = 1
  /\ CountName(last.loaded.entities, "b") = 1
  /\ Len(last.loaded.relationships) = 2
  /\ Len(Persisted.entities) = 1
  /\ Persisted.relationships = <<Relationship("a", "a", "r1")>>

\* the names of the last call name no loaded entity and no endpoint
NamesUnknown ==
  \A k \in 1..Len(last.arg) :
    /\ CountName(last.loaded.entities, last.arg[k]) = 0
    /\ \A i \in 1..Len(last.loaded.relationships) :
         /\ last.loaded.relationships[i].from # last.arg[k]
         /\ last.loaded.relationships[i].to # last.arg[k]

\* C15: deleteEntities with unknown names, deleteObservations with entries that
\* name no stored entity and deleteRelationships with triples that match no
\* stored relationship end without error and leave the persisted graph as it
\* was; openNodes with unknown names ends without error.
C15_SilentNoOps ==
  /\ (last.op = "deleteEntities" /\ NamesUnknown) =>
       (~ last.threw /\ Persisted = last.loaded)
  /\ (/\ last.op = "deleteObservations"
      /\ \A k \in 1..Len(last.arg) :
           CountName(last.loaded.entities, last.arg[k].entityName) = 0) =>
       (~ last.threw /\ Persisted = last.loaded)
  /\ (/\ last.op = "deleteRelationships"
      /\ \A k \in 1..Len(last.arg) : \A i \in 1..Len(last.loaded.relationships) :
           ~ SameTriple(last.loaded.relationships[i], last.arg[k])) =>
       (~ last.threw /\ Persisted = last.loaded)
  /\ (/\ last.op = "openNodes"
      /\ \A k \in 1..Len(last.arg) :
           CountName(last.loaded.entities, last.arg[k]) = 0) =>
       (~ last.threw /\ last.result.entities = <<>>)

\* deleteObservations naming only a missing entity, on a graph that has others
C15_Witness ==
  /\ last.op = "deleteObservations"
  /\ Len(last.arg) >= 1
  /\ \A k \in 1..Len(last.arg) :
       CountName(last.loaded.entities, last.arg[k].entityName) = 0
  /\ last.loaded.entities # <<>>
  /\ last.loaded.relationships # <<>>
  /\ ~ last.threw

\* the observations listed, in the last call, for the loaded entity at position i
ListedFor(i) ==
  UNION {Range(last.arg[k].observations) :
           k \in {h \in 1..Len(last.arg) :
                    FindEntityIndex(last.loaded.entities, last.arg[h].entityName) = i}}

\* C16: deleteObservations removes from each entity an entry names every
\* occurrence of each listed string, keeps its other observations in order,
\* and changes no other entity and no relationship.
C16_DeleteObservationsResult ==
  last.op = "deleteObservations" =>
    /\ ~ last.threw
    /\ Len(Persisted.entities) = Len(last.loaded.entities)
    /\ \A i \in 1..Len(last.loaded.entities) :
         LET obs == last.loaded.entities[i].observations
         IN Persisted.entities[i]
              = [last.loaded.entities[i] EXCEPT !.observations =
                   SubSeqAt(obs, {j \in 1..Len(obs) : obs[j] \notin ListedFor(i)})]
    /\ Persisted.relationships = last.loaded.relationships

\* o1, stored twice around o2, is deleted from a; b and the relationships stay
C16_Witness ==
  /\ last.op = "deleteObservations"
  /\ last.arg = <<DeletedObservation("a", <<"o1">>)>>
  /\ last.loaded.entities = <<Entity("b", "t", <<"o2">>),
                             Entity("a", "t", <<"o1", "o2", "o1">>)>>
  /\ Persisted.entities = <<Entity("b", "t", <<"o2">>), Entity("a", "t", <<"o2">>)>>
  /\ Persisted.relationships # <<>>

\* C17: deleteRelationships removes exactly the stored relationships whose
\* triple equals a given triple, keeps the others in order and leaves the
\* entities unchanged.
C17_DeleteRelationshipsResult ==
  last.op = "deleteRelationships" =>
    /\ ~ last.threw
    /\ Persisted.relationships
         = SubSeqAt(last.loaded.relationships,
                    {i \in 1..Len(last.loaded.relationships) :
                       \A k \in 1..Len(last.arg) :
                         ~ SameTriple(last.loaded.relationships[i], last.arg[k])})
    /\ Persisted.entities = last.loaded.entities

\* one of two stored relationships matches a given triple; entities are stored
C17_Witness ==
  /\ last.op = "deleteRelationships"
  /\ Len(last.arg) = 2
  /\ last.loaded.relationships
       = <<Relationship("a", "b", "r1"), Relationship("a", "a", "r1")>>
  /\ Persisted.relationships = <<Relationship("a", "b", "r1")>>
  /\ Persisted.entities # <<>>

\* C12: last save wins on the whole partition: the graph persisted is what the
\* call that saved last made of its own loaded copy, whatever was saved between
\* its load and its save; so with load-A, load-B, save-A, save-B both calls
\* return without error and A's change is gone.
C12_LastSaveWins ==
  \A p \in Processes :
    (inflight[p].pc = "returned" /\ inflight[p].savedLast) =>
      loadGraph(inflight[p].sessionId)
        = modifierOf(inflight[p].op, inflight[p].loaded, inflight[p].arg).graph

\* A and B both loaded the empty graph; A created a, B created b and saved
\* last; both returned their entity; the persisted graph holds b and not a
C12_Witness ==
  /\ inflight["A"].pc = "returned" /\ inflight["B"].pc = "returned"
  /\ ~ inflight["A"].threw /\ ~ inflight["B"].threw
  /\ inflight["A"].loaded = EmptyGraph /\ inflight["B"].loaded = EmptyGraph
  /\ inflight["A"].result = <<Entity("a", "t", <<>>)>>
  /\ inflight["B"].result = <<Entity("b", "t", <<>>)>>
  /\ inflight["B"].savedLast /\ ~ inflight["A"].savedLast
  /\ loadGraph(Undefined).entities = <<Entity("b", "t", <<>>)>>

\* C13: a loadGraph that directly follows a successful saveGraph(G) returns a
\* graph equal to G, whatever the file held before the save.
C13_RoundTrip ==
  [][(/\ last.op = "saveGraph" /\ ~ last.threw
      /\ last'.op = "loadGraph")
     => (~ last'.threw /\ last'.result = last.arg)]_vars

\* a step that is a loadGraph call
IsLoad == last' # last /\ last'.op = "loadGraph"

\* C14: loadGraph on a missing file returns the empty graph without error and
\* leaves the file missing; a file that cannot be read, or that holds a line
\* that does not parse, makes it fail with that error.
C14_LoadFailures ==
  [][IsLoad =>
       /\ file' = file
       /\ file.status = "ENOENT" =>
            (~ last'.threw /\ last'.result = EmptyGraph)
       /\ file.status = "EACCES" =>
            (last'.threw /\ last'.error = <<"EACCES">>)
       /\ (/\ file.status = "ok"
           /\ \E i \in 1..Len(file.lines) : ~ file.lines[i].complete) =>
            (last'.threw /\ last'.error = <<"SyntaxError">>)]_vars

\* loadGraph on a missing file returned the empty graph, and the file is still
\* missing
C14_Witness ==
  /\ last.op = "loadGraph"
  /\ last.arg = FileMissing
  /\ ~ last.threw
  /\ last.result = EmptyGraph
  /\ file = FileMissing

\* the names of the entities of a graph
NamesOf(graph) == {graph.entities[i].name : i \in 1..Len(graph.entities)}

\* C18: the relationships returned by searchNodes and openNodes are exactly
\* the stored relationships, in stored order, whose from or whose to is the
\* name of a returned entity.
C18_SubgraphRule ==
  last.op \in {"searchNodes", "openNodes"} =>
    last.result.relationships
      = SubSeqAt(last.loaded.relationships,
                 {i \in 1..Len(last.loaded.relationships) :
                    \/ last.loaded.relationships[i].from \in NamesOf(last.result)
                    \/ last.loaded.relationships[i].to \in NamesOf(last.result)})

\* a returned relationship has one endpoint only among the returned entities,
\* and a stored relationship with no returned endpoint is left out
C18_Witness ==
  /\ last.op = "searchNodes"
  /\ Len(last.loaded.relationships) = 2
  /\ Len(last.result.relationships) = 1
  /\ last.result.relationships[1].from \in NamesOf(last.result)
  /\ last.result.relationships[1].to \notin NamesOf(last.result)
  /\ last.result.relationships[1].to \in NamesOf(last.loaded)

\* part occurs in str as a run of consecutive characters
IsSubstring(part, str) ==
  \E i \in 1..(Len(str) + 1) : \E j \in (i - 1)..Len(str) : SubSeq(str, i, j) = part

\* C19: searchNodes(query) returns exactly the stored entities, in stored
\* order, for which the lower-cased query is a substring of the lower-cased
\* name, entityType or some observation; when there is none, the result has no
\* entity and no relationship.
C19_SearchNodesResult ==
  last.op = "searchNodes" =>
    LET matching ==
          {i \in 1..Len(last.loaded.entities) :
             LET e == last.loaded.entities[i]
             IN \/ IsSubstring(toLowerCase(last.arg), toLowerCase(e.name))
                \/ IsSubstring(toLowerCase(last.arg), toLowerCase(e.entityType))
                \/ \E k \in 1..Len(e.observations) :
                     IsSubstring(toLowerCase(last.arg), toLowerCase(e.observations[k]))}
    IN /\ ~ last.threw
       /\ last.result.entities = SubSeqAt(last.loaded.entities, matching)
       /\ matching = {} => last.result = EmptyGraph

\* the query BC finds, among three stored entities, the one with observation bC
C19_Witness ==
  /\ last.op = "searchNodes"
  /\ last.arg = <<"B", "C">>
  /\ Len(last.loaded.entities) = 3
  /\ Len(last.result.entities) = 1
  /\ last.result.entities[1].observations = <<<<"a">>, <<"b", "C">>>>

\* C20: openNodes(names) returns exactly the stored entities, in stored order,
\* whose name equals a member of names, case included; a name with no stored
\* entity adds nothing and raises no error.
C20_OpenNodesResult ==
  last.op = "openNodes" =>
    /\ ~ last.threw
    /\ last.result.entities
         = SubSeqAt(last.loaded.entities,
                    {i \in 1..Len(last.loaded.entities) :
                       \E k \in 1..Len(last.arg) :
                         last.arg[k] = last.loaded.entities[i].name})

\* Ab and the unknown b are opened in a graph holding ab and Ab: only Ab returns
C20_Witness ==
  /\ last.op = "openNodes"
  /\ last.arg = <<<<"A", "b">>, <<"b">>>>
  /\ <<"a", "b">> \in NamesOf(last.loaded)
  /\ <<"b">> \notin NamesOf(last.loaded)
  /\ Len(last.result.entities) = 1
  /\ last.result.entities[1].name = <<"A", "b">>

\* C21: a readGraph that directly follows a completed mutating call returns
\* the graph that call saved: every entity and relationship, in stored order,
\* equal to what was written.
C21_ReadGraphReturnsSaved ==
  [][(/\ last.op \in MutatingOps /\ ~ last.threw
      /\ last'.op = "readGraph")
     => (~ last'.threw /\ last'.result = last.memory)]_vars

\* process p moved from one position of its call to the next
Stepped(p) == inflight'[p].pc # inflight[p].pc

\* C22: a call makes one load, which writes nothing; a mutating call that
\* completes then makes one save, of what its modifier made of the graph it
\* loaded; a failed call and the queries never save, so those steps leave the
\* persisted graphs unchanged.
C22_OneLoadOneSave ==
  [][\A p \in Processes :
       /\ (Stepped(p) /\ inflight'[p].pc = "loaded") =>
            /\ graphs' = graphs
            /\ inflight'[p].graph = loadGraph(SessionOf(inflight'[p].sessionId))
       /\ (Stepped(p) /\ inflight'[p].pc = "returned") =>
            /\ inflight'[p].loaded = inflight[p].graph
            /\ graphs' =
                 IF inflight[p].op \in MutatingOps /\ ~ inflight'[p].threw
                 THEN saveGraph(SessionOf(inflight[p].sessionId),
                                modifierOf(inflight[p].op, inflight[p].graph,
                                           inflight[p].arg).graph)
                 ELSE graphs]_vars

\* B's readGraph loaded the empty graph and returned it after A's createEntities
\* had saved; the persisted graph is the one A wrote
C22_Witness ==
  /\ inflight["A"].pc = "returned" /\ inflight["A"].op = "createEntities"
  /\ ~ inflight["A"].threw /\ inflight["A"].savedLast
  /\ inflight["B"].pc = "returned" /\ inflight["B"].op = "readGraph"
  /\ inflight["B"].result = EmptyGraph
  /\ last.op = "readGraph"
  /\ loadGraph(Undefined).entities = inflight["A"].result
  /\ inflight["A"].result # <<>>

\* the positions of before whose item is still in after
Survivors(before, after) == {i \in 1..Len(before) : before[i] \in Range(after)}

\* the items of before that are still in after come first in after, in the
\* order they had; what follows them was added
OrderKept(before, after) ==
  /\ Cardinality(Survivors(before, after)) <= Len(after)
  /\ SubSeq(after, 1, Cardinality(Survivors(before, after)))
       = SubSeqAt(before, Survivors(before, after))

NameSeq(entities) == [i \in 1..Len(entities) |-> entities[i].name]

\* C23: after every mutation the entities, the relationships and each
\* remaining entity's observations that were stored before and were not
\* removed stand first, in their stored order, and the added items follow.
C23_InsertionOrder ==
  (last.op \in MutatingOps /\ ~ last.threw) =>
    LET before == last.loaded
        kept == SubSeqAt(before.entities,
                         Survivors(NameSeq(before.entities), NameSeq(Persisted.entities)))
    IN /\ OrderKept(NameSeq(before.entities), NameSeq(Persisted.entities))
       /\ OrderKept(before.relationships, Persisted.relationships)
       /\ \A k \in 1..Len(kept) :
            OrderKept(kept[k].observations, Persisted.entities[k].observations)

\* o2 and o1 are added to a, which held o1 after b in the entity sequence: o1
\* stays first, o2 follows, and b, a keep their order
C23_Witness ==
  /\ last.op = "addObservations"
  /\ last.arg = <<Observation("a", <<"o2", "o1">>)>>
  /\ NameSeq(last.loaded.entities) = <<"b", "a">>
  /\ last.loaded.entities[2].observations = <<"o1">>
  /\ Persisted.entities[2].observations = <<"o1", "o2">>
  /\ NameSeq(Persisted.entities) = <<"b", "a">>
  /\ Len(Persisted.relationships) = 2

StoreKeys == {"k", "1", "j"}

\* the data persisted for the session of the last store call
PersistedMap == loadMap(last.sessionId)

\* the value the batch gives key: that of its last entry with the key
LastValue(entries, key) ==
  entries[CHOOSE i \in 1..Len(entries) :
            /\ entries[i].key = key
            /\ \A j \in (i + 1)..Len(entries) : entries[j].key # key].value

\* C24: after save every key of the batch holds the value of its last entry
\* in the batch and every other key holds what it held; load with keys returns
\* the entries of the requested keys that exist, in requested order, and load
\* without keys or with an empty list returns all entries of the session.
C24_SaveThenLoad ==
  /\ last.op = "save" =>
       \A key \in StoreKeys :
         MapGet(PersistedMap, key)
           = IF \E i \in 1..Len(last.arg.entries) : last.arg.entries[i].key = key
             THEN LastValue(last.arg.entries, key)
             ELSE MapGet(last.loaded, key)
  /\ (last.op = "load" /\ "keys" \in DOMAIN last.arg /\ last.arg.keys # <<>>) =>
       last.result
         = LET present == SubSeqAt(last.arg.keys,
                                   {i \in 1..Len(last.arg.keys) :
                                      MapGet(PersistedMap, last.arg.keys[i]) # Undefined})
           IN [i \in 1..Len(present) |->
                 Entry(present[i], MapGet(PersistedMap, present[i]))]
  /\ (last.op = "load" /\ ("keys" \notin DOMAIN last.arg \/ last.arg.keys = <<>>)) =>
       /\ Len(last.result) = Len(PersistedMap)
       /\ \A key \in StoreKeys :
            MapGet(PersistedMap, key) # Undefined
              <=> Includes(last.result, Entry(key, MapGet(PersistedMap, key)))

\* k held v and 1 held v; a batch setting k to v and then to w leaves k at w
\* and 1 at v
C24_Witness ==
  /\ last.op = "save"
  /\ last.arg.entries = <<Entry("k", "v"), Entry("k", "w")>>
  /\ MapGet(last.loaded, "k") = "v"
  /\ MapGet(last.loaded, "1") = "v"
  /\ MapGet(PersistedMap, "k") = "w"
  /\ MapGet(PersistedMap, "1") = "v"

\* C25: a store call under one session leaves the file of every other session
\* as it was, and load and listKeys on a session whose file was never written
\* return an empty array.
C25_SessionIsolation ==
  [][/\ \A sessionId \in StoreSessionIds :
          sessionId # last'.sessionId =>
            sessionFiles'[getSessionFilePath(sessionId)]
              = sessionFiles[getSessionFilePath(sessionId)]
     /\ (/\ last'.op \in {"load", "listKeys"}
         /\ sessionFiles[getSessionFilePath(last'.sessionId)].status = "ENOENT") =>
          last'.result = <<>>]_vars

\* the key k holds v in the global session and w in session1 while session2,
\* never written, was just listed as empty
C25_Witness ==
  /\ MapGet(loadMap(Undefined), "k") = "v"
  /\ MapGet(loadMap("session1"), "k") = "w"
  /\ sessionFiles[getSessionFilePath("session2")].status = "ENOENT"
  /\ last.op = "listKeys" /\ last.sessionId = "session2"
  /\ last.result = <<>>

\* C26: the step of an addObservations call that fails with entity-not-found
\* performs no save: no partition's persisted graph changes and no partition
\* is written.
C26_NoSaveOnFailure ==
  [][(last'.op = "addObservations" /\ last'.threw)
     => (graphs' = graphs /\ written' = written)]_vars

\* the second entry names a missing entity after the first added o2 and o1 to
\* a in memory; a's stored observations are as loaded
C26_Witness ==
  /\ last.op = "addObservations" /\ last.threw
  /\ last.error = EntityNotFound("b")
  /\ Len(last.arg) = 2
  /\ last.arg[1] = Observation("a", <<"o2", "o1">>)
  /\ NameSeq(last.loaded.entities) = <<"a">>
  /\ last.arg[2].entityName = "b"
  /\ last.memory.entities[1].observations = <<"o2", "o1">>
  /\ Persisted.entities[1].observations = <<>>

\* C27: however the loads and saves of concurrent calls interleave, when no
\* batch repeats a name and the graph started with unique names, the persisted
\* graph and every loaded copy hold at most one entity per name.
C27_UniqueNamesUnderInterleaving ==
  /\ \A i, j \in 1..Len(loadGraph(Undefined).entities) :
       loadGraph(Undefined).entities[i].name = loadGraph(Undefined).entities[j].name
         => i = j
  /\ \A p \in Processes :
       inflight[p].pc = "loaded" =>
         \A i, j \in 1..Len(inflight[p].graph.entities) :
           inflight[p].graph.entities[i].name = inflight[p].graph.entities[j].name
             => i = j

\* A and B both loaded the empty graph and both created a; both were told a is
\* new, and the persisted graph holds a once
C27_Witness ==
  /\ inflight["A"].pc = "returned" /\ inflight["B"].pc = "returned"
  /\ inflight["A"].op = "createEntities" /\ inflight["B"].op = "createEntities"
  /\ inflight["A"].loaded = EmptyGraph /\ inflight["B"].loaded = EmptyGraph
  /\ inflight["A"].result = <<Entity("a", "t", <<>>)>>
  /\ inflight["B"].result = <<Entity("a", "t", <<>>)>>
  /\ loadGraph(Undefined).entities = <<Entity("a", "t", <<>>)>>

\* C28: no entity of the persisted graph lists the same observation string
\* twice.
C28_NoRepeatedObservation ==
  \A i \in 1..Len(loadGraph(Undefined).entities) :
    LET obs == loadGraph(Undefined).entities[i].observations
    IN \A j, k \in 1..Len(obs) : obs[j] = obs[k] => j = k

\* the stored relationships with an endpoint that names a stored entity
Attached(graph) ==
  {i \in 1..Len(graph.relationships) :
     \/ graph.relationships[i].from \in NamesOf(graph)
     \/ graph.relationships[i].to \in NamesOf(graph)}

\* C29: searchNodes with the empty query returns every stored entity and the
\* relationships with at least one endpoint naming a stored entity; it equals
\* what readGraph returns exactly when every stored relationship has one.
C29_EmptyQuery ==
  (last.op = "searchNodes" /\ last.arg = <<>>) =>
    /\ last.result.entities = last.loaded.entities
    /\ last.result.relationships
         = SubSeqAt(last.loaded.relationships, Attached(last.loaded))
    /\ last.result = queryOf("readGraph", last.loaded, <<>>)
         <=> Attached(last.loaded) = 1..Len(last.loaded.relationships)

\* two entities and two relationships are stored, one of them between names
\* of no entity: the empty query returns both entities and one relationship
C29_Witness ==
  /\ last.op = "searchNodes" /\ last.arg = <<>>
  /\ Len(last.loaded.entities) = 2
  /\ Len(last.loaded.relationships) = 2
  /\ Len(last.result.entities) = 2
  /\ Len(last.result.relationships) = 1
  /\ last.result # last.loaded

\* C30: a deleteEntities, deleteObservations or deleteRelationships call that
\* repeats the call before it, with the same argument, leaves the persisted
\* graph as the first of the two left it.
C30_DeleteIdempotent ==
  (/\ last.op \in {"deleteEntities", "deleteObservations", "deleteRelationships"}
   /\ last.repeated) =>
    (~ last.threw /\ Persisted = last.loaded)

\* o1 was deleted from a by the call before; the same call again leaves a with
\* o2, and the relationships, as they were
C30_Witness ==
  /\ last.op = "deleteObservations" /\ last.repeated
  /\ last.arg = <<DeletedObservation("a", <<"o1">>)>>
  /\ Len(Persisted.entities) = 2
  /\ \E i \in 1..2 : Persisted.entities[i] = Entity("a", "t", <<"o2">>)
  /\ Persisted.relationships # <<>>

====
